---- MODULE Spec2Model ----
(***************************************************************************)
(* A model of pdbc/trafodion/connector/cursor.py: one TrafCursor bound to  *)
(* a connection, its statement, its result buffer, and the transport that  *)
(* answers its execute and fetch calls.                                    *)
(***************************************************************************)
EXTENDS Integers, Sequences, FiniteSets, TLC

\* ------------------------------------------------------------------ bounds
\* statements one cursor creates (one per execute that passes its preconditions)
MaxExec == 2
\* rows of one server-side result set
MaxRows == 2
\* rows one transport fetch reply carries
MaxBatch == 2
\* the size argument of fetchmany
MaxSize == 2
\* the arraysize setting
MaxArraySize == 2
\* further cursors created on the same connection
MaxCursors == 2

\* --------------------------------------------------------------- constants
\* Transport's tags (cursor.py reads them as Transport.<NAME>)
SRVR_API_SQLEXECDIRECT == "SRVR_API_SQLEXECDIRECT"
SRVR_API_SQLEXECUTE2 == "SRVR_API_SQLEXECUTE2"
TYPE_SELECT == "TYPE_SELECT"
TYPE_OTHER == "TYPE_OTHER"
TYPE_UNKNOWN == "TYPE_UNKNOWN"

\* Python's None, wherever a value may be None
None == [tag |-> "None"]
\* a Python list / tuple value
List(s) == [tag |-> "list", rows |-> s]
\* a Python bool value returned to the caller
Bool(b) == [tag |-> "bool", v |-> b]
\* a str holding the code points cps
Str(cps) == [tag |-> "str", v |-> cps]
\* a bytes object holding the byte values bs
Bytes(bs) == [tag |-> "bytes", v |-> bs]
\* row n of the result set the server opened for statement ex
Row(ex, n) == [tag |-> "row", ex |-> ex, n |-> n]

Min(a, b) == IF a < b THEN a ELSE b

VARIABLES
    cursor,      \* the TrafCursor object's fields
    conn_alive,  \* whether the connection behind the weak proxy still exists
    transport,   \* the server side: statements created, the open result set, call counts
    returned,    \* rows handed to the caller since the last successful execute
    exec_ok,     \* number of successful transport executes on this cursor
    last,        \* the last call made on the cursor: what it returned or raised, and its transport calls
    conn_seq,    \* the connection's sequence: the last value get_seq() gave out
    other_cursors  \* _stmt_name of the further cursors created on the connection, oldest first

vars == <<cursor, conn_alive, transport, returned, exec_ok, last, conn_seq, other_cursors>>

\* what only the creation of a cursor changes
creation_vars == <<conn_seq, other_cursors>>

\* ------------------------------------------------------------ pure helpers
\* str.encode("utf-8") of one code point: its bytes, or <<-1>> for a lone
\* surrogate, which Python refuses with UnicodeEncodeError
Utf8Char(cp) ==
    IF cp < 128 THEN <<cp>>
    ELSE IF cp < 2048 THEN <<192 + (cp \div 64), 128 + (cp % 64)>>
    ELSE IF cp >= 55296 /\ cp <= 57343 THEN <<-1>>
    ELSE <<224 + (cp \div 4096), 128 + ((cp \div 64) % 64), 128 + (cp % 64)>>

RECURSIVE Utf8(_)
Utf8(cps) ==
    IF cps = <<>> THEN <<>> ELSE Utf8Char(Head(cps)) \o Utf8(Tail(cps))

\* whether operation.encode("utf-8") raises
EncodeFails(operation) ==
    /\ operation.tag = "str"
    /\ \E i \in 1..Len(Utf8(operation.v)) : Utf8(operation.v)[i] = -1

\* _operation of execute: the bytes sent to the transport
EncodeOperation(operation) ==
    IF operation.tag = "str" THEN Bytes(Utf8(operation.v)) ELSE operation

\* a mutant of OperationTruthy: the empty operation is not singled out
OperationTruthy_Always(operation) == TRUE

\* Python truthiness of an operation (str or bytes): non-empty
OperationTruthy(operation) == Len(operation.v) > 0

\* str(n) of a non-negative int: its decimal digits as code points
RECURSIVE Digits(_)
Digits(n) ==
    IF n < 10 THEN <<48 + n>> ELSE Digits(n \div 10) \o <<48 + (n % 10)>>

\* Connection.get_seq(): the next value of the connection's sequence
GetSeq(seq) == seq + 1

\* a mutant of StmtLabel: only the last digit of the sequence value is used
StmtLabel_LastDigit(cursor_id) ==
    Str(<<83, 81, 76, 95, 67, 85, 82, 95>> \o <<48 + (cursor_id % 10)>>)

\* _generate_stmtlabel, line 217: "SQL_CUR_" + str(cursor_id)
StmtLabel(cursor_id) ==
    Str(<<83, 81, 76, 95, 67, 85, 82, 95>> \o Digits(cursor_id))

\* the statement object execute() builds, before the transport has classified it
NewStatement(kind, id) == [tag |-> "st", id |-> id, kind |-> kind, sql_stmt_type_ |-> TYPE_UNKNOWN]

\* ----------------------------------------------------------------- inputs
\* "", "\u00e9", a lone surrogate "\ud800", b"\xc3\xa9"
Operations ==
    {Str(<<>>), Str(<<233>>), Str(<<55296>>), Bytes(<<195, 169>>)}

\* params omitted, an empty sequence, one bound value
ParamValues == {None, List(<<>>), List(<<5>>)}

\* fetchmany(), fetchmany(0), ..., fetchmany(MaxSize)
SizeArgs == {[given |-> FALSE]} \cup {[given |-> TRUE, size |-> n] : n \in 0..MaxSize}

\* what the transport does with one execute call
ExecChoices ==
    {[raise |-> TRUE, err |-> e] : e \in {"InterfaceError", "OperationalError"}}
    \cup {[raise |-> FALSE, type |-> TYPE_OTHER, total |-> 0]}
    \cup {[raise |-> FALSE, type |-> TYPE_SELECT, total |-> n] : n \in 0..MaxRows}

\* what the transport does with one fetch call
FetchChoices ==
    {[raise |-> TRUE]}
    \cup {[raise |-> FALSE, n |-> n, eod |-> e] : n \in 0..MaxBatch, e \in BOOLEAN}

\* ------------------------------------------------------------------- Init
\* TrafCursor.__init__ with a connection: the state after construction
InitCursor ==
    [connection |-> "proxy",
     next_row |-> 0,
     st |-> None,
     execute_type |-> SRVR_API_SQLEXECDIRECT,
     result_set |-> None,
     end_data |-> FALSE,
     row_cached |-> 0,
     executed |-> None,
     arraysize |-> 1,
     stmt_name |-> StmtLabel(GetSeq(0))]

InitTransport ==
    [stmts |-> 0,        \* statements created so far
     ex |-> 0,           \* the statement whose result set is open
     total |-> 0,        \* rows of that result set
     sent |-> 0,         \* rows of it sent in replies so far
     inline_eod |-> 0,   \* rows that came in a reply flagged end-of-data
     batches |-> 0,      \* non-empty replies flagged not end-of-data
     replies |-> 0,      \* fetch calls for that statement the transport answered
     fetch_failed |-> FALSE]  \* whether a fetch call for that statement failed

Init ==
    /\ cursor = InitCursor
    /\ conn_alive = TRUE
    /\ transport = InitTransport
    /\ returned = <<>>
    /\ exec_ok = 0
    /\ last = [op |-> "init", outcome |-> "ok", ret |-> None, calls |-> <<>>]
    /\ conn_seq = GetSeq(0)
    /\ other_cursors = <<>>

\* -------------------------------------------------------------- transport
\* whether the server can answer a fetch call this way: a failure, a
\* non-empty batch of rows it still has, or end-of-data together with
\* whatever rows are left; with the connection gone every call fails
FetchChoiceValid(t, alive, ch) ==
    IF ch.raise THEN TRUE
    ELSE /\ alive
         /\ IF ch.eod THEN ch.n = t.total - t.sent
            ELSE ch.n >= 1 /\ ch.n <= t.total - t.sent

\* fetch_reply of Statement.fetch(): the batch, its count, the end-of-data flag
FetchReply(t, ch) ==
    [result_set |-> List([i \in 1..ch.n |-> Row(t.ex, t.sent + i)]),
     rows_fetched |-> ch.n,
     end_of_data |-> ch.eod]

\* the server side after a fetch call
AfterFetch(t, ch) ==
    IF ch.raise
    THEN [t EXCEPT !.fetch_failed = TRUE]
    ELSE [t EXCEPT !.replies = @ + 1,
                   !.sent = @ + ch.n,
                   !.batches = IF ch.eod THEN @ ELSE @ + 1,
                   !.inline_eod = IF ch.eod THEN ch.n ELSE @]

\* the server side after a successful execute of statement id: a new result set
OpenResultSet(t, id, ch) ==
    [t EXCEPT !.ex = id, !.total = ch.total, !.sent = 0, !.inline_eod = 0,
              !.batches = 0, !.replies = 0, !.fetch_failed = FALSE]

\* ------------------------------------------------------------ the cursor
\* what one call on the cursor leaves behind
Result(c, t, outcome, ret, calls) ==
    [c |-> c, t |-> t, outcome |-> outcome, ret |-> ret, calls |-> calls, valid |-> TRUE]

\* a transport answer the server cannot give in this state
Invalid(c, t) ==
    [c |-> c, t |-> t, outcome |-> "invalid", ret |-> None, calls |-> <<>>, valid |-> FALSE]

\* a mutant of NotConnected: the connection check is missing
NotConnected_NoCheck(c) == FALSE

\* execute, line 170: not self._connection
NotConnected(c) == c.connection = "None"

\* a mutant of PreparedMode: "if params:", the truthiness of params
PreparedMode_Truthy(params) == params.tag = "list" /\ Len(params.rows) > 0

\* execute, line 187: params is not None
PreparedMode(params) == params # None

\* execute, lines 186-193: record the text, choose the mode, build the statement
BuildStatement(c, op, params, id) ==
    IF PreparedMode(params)
    THEN [c EXCEPT !.executed = op,
                   !.execute_type = SRVR_API_SQLEXECUTE2,
                   !.st = NewStatement("PreparedStatement", id)]
    ELSE [c EXCEPT !.executed = op,
                   !.execute_type = SRVR_API_SQLEXECDIRECT,
                   !.st = NewStatement("Statement", id)]

\* execute, lines 198-202: the transport entry point called, with its arguments
ExecuteCall(c, op, params) ==
    IF c.execute_type = SRVR_API_SQLEXECDIRECT
    THEN [api |-> "execute", st |-> c.st.id, kind |-> c.st.kind,
          sql |-> op, execute_type |-> c.execute_type]
    ELSE [api |-> "execute_all", st |-> c.st.id, kind |-> c.st.kind,
          sql |-> op, execute_type |-> c.execute_type, params |-> params]

\* execute, lines 210-211: what a successful execute resets
ResetOnExecute(c) == [c EXCEPT !.end_data = FALSE]

\* TrafCursor.execute(operation, params); ch is the transport's answer, read
\* only when the call reaches the transport (multi has no effect, line 195)
execute(c, t, alive, operation, params, ch) ==
    IF ~OperationTruthy(operation) THEN Result(c, t, "ok", None, <<>>)
    ELSE IF NotConnected(c) THEN Result(c, t, "ProgrammingError", None, <<>>)
    ELSE IF ~alive THEN Result(c, t, "ReferenceError", None, <<>>)
    ELSE IF EncodeFails(operation) THEN Result(c, t, "ProgrammingError", None, <<>>)
    ELSE IF t.stmts >= MaxExec THEN Invalid(c, t)
    ELSE LET op == EncodeOperation(operation)
             id == t.stmts + 1
             c1 == BuildStatement(c, op, params, id)
             call == ExecuteCall(c1, op, params)
             t1 == [t EXCEPT !.stmts = id]
         IN  IF ch.raise THEN Result(c1, t1, ch.err, None, <<call>>)
             ELSE Result(ResetOnExecute([c1 EXCEPT !.st.sql_stmt_type_ = ch.type]),
                         OpenResultSet(t1, id, ch), "ok", None, <<call>>)

\* a mutant of NotSelect: the statement type is not checked
NotSelect_NoGate(st) == FALSE

\* fetchone / fetchmany, lines 221 and 244: the statement is not a SELECT
NotSelect(st) == st.sql_stmt_type_ # TYPE_SELECT

\* a mutant of EndDataSeen: the flag is not consulted
EndDataSeen_Ignored(c) == FALSE

\* fetchone, line 224: end of data was seen, do not fetch again
EndDataSeen(c) == c.end_data

\* a mutant of BufferHasRow: the cached batch is left after its first row
BufferHasRow_FirstOnly(c) == c.next_row < 1 /\ c.next_row < c.row_cached

\* a mutant of BufferHasRow: the last row of a batch is never served
BufferHasRow_OffByOne(c) == c.next_row + 1 < c.row_cached

\* fetchone, line 227: the read position is inside the cached batch
BufferHasRow(c) == c.next_row < c.row_cached

\* fetchone, lines 228-229: serve the next row of the cached batch
ServeCached(c, t) ==
    LET c1 == [c EXCEPT !.next_row = @ + 1]
    IN  IF c1.result_set = None THEN Result(c1, t, "TypeError", None, <<>>)
        ELSE IF c1.next_row > Len(c1.result_set.rows)
        THEN Result(c1, t, "IndexError", None, <<>>)
        ELSE Result(c1, t, "ok", c1.result_set.rows[c1.next_row], <<>>)

\* a mutant of StoreReply: the reply's end-of-data flag is not stored
StoreReply_DropsFlag(c, reply) == [c EXCEPT !.result_set = reply.result_set]

\* fetchone, lines 232-233: what is stored from every reply
StoreReply(c, reply) ==
    [c EXCEPT !.result_set = reply.result_set, !.end_data = reply.end_of_data]

\* fetchone, lines 236-239: a reply with rows restarts the read position
RestartRead(c, reply) ==
    [c EXCEPT !.row_cached = reply.rows_fetched, !.next_row = 1]

\* a mutant of OnFetchError: a failing fetch is taken for the end of the data
OnFetchError_MarksEnd(c) == [c EXCEPT !.end_data = TRUE]

\* fetchone, line 231: a failing fetch raises before anything is assigned
OnFetchError(c) == c

\* fetchone, lines 231-240: ask the transport for the next batch
FetchBatch(c, t, alive, ch) ==
    IF ~FetchChoiceValid(t, alive, ch) THEN Invalid(c, t)
    ELSE LET call == [api |-> "fetch", st |-> c.st.id]
             t1 == AfterFetch(t, ch)
         IN  IF ch.raise THEN Result(OnFetchError(c), t1, "OperationalError", None, <<call>>)
             ELSE LET reply == FetchReply(t, ch)
                      c1 == StoreReply(c, reply)
                      c2 == RestartRead(c1, reply)
                  IN  IF c1.end_data THEN Result(c1, t1, "ok", None, <<call>>)
                      ELSE IF Len(c2.result_set.rows) < 1
                      THEN Result(c2, t1, "IndexError", None, <<call>>)
                      ELSE Result(c2, t1, "ok", c2.result_set.rows[1], <<call>>)

\* TrafCursor.fetchone(); ch is the transport's answer, read only when the
\* call reaches the transport
fetchone(c, t, alive, ch) ==
    IF c.st = None THEN Result(c, t, "AttributeError", None, <<>>)
    ELSE IF NotSelect(c.st) THEN Result(c, t, "InternalError", None, <<>>)
    ELSE IF EndDataSeen(c) THEN Result(c, t, "ok", None, <<>>)
    ELSE IF BufferHasRow(c) THEN ServeCached(c, t)
    ELSE FetchBatch(c, t, alive, ch)

\* every way one fetchone() call can end in this state
FetchOneOutcomes(c, t, alive) ==
    {r \in {fetchone(c, t, alive, ch) : ch \in FetchChoices} : r.valid}

\* fetchmany, line 242: size=1 when the argument is omitted
SizeOf(arg) == IF arg.given THEN arg.size ELSE 1

\* fetchmany, line 248: size or self.arraysize
RowCount(size, arraysize) == IF size # 0 THEN size ELSE arraysize

\* fetchmany, lines 249-254: cnt calls of fetchone, keeping the truthy rows
RECURSIVE FetchManyLoop(_, _, _, _, _, _)
FetchManyLoop(c, t, alive, cnt, res, calls) ==
    IF cnt <= 0 THEN {Result(c, t, "ok", List(res), calls)}
    ELSE UNION {
            IF r.outcome # "ok"
            THEN {Result(r.c, r.t, r.outcome, None, calls \o r.calls)}
            ELSE FetchManyLoop(r.c, r.t, alive, cnt - 1,
                               IF r.ret # None THEN Append(res, r.ret) ELSE res,
                               calls \o r.calls)
            : r \in FetchOneOutcomes(c, t, alive)}

\* TrafCursor.fetchmany(size): every way the call can end in this state
fetchmany(c, t, alive, arg) ==
    IF c.st = None THEN {Result(c, t, "AttributeError", None, <<>>)}
    ELSE IF NotSelect(c.st) THEN {Result(c, t, "InternalError", None, <<>>)}
    ELSE FetchManyLoop(c, t, alive, RowCount(SizeOf(arg), c.arraysize), <<>>, <<>>)

\* CursorBase.fetchall, lines 84-88, which TrafCursor does not override: the
\* body is "pass", so the call returns None and does nothing
fetchall(c, t) == Result(c, t, "ok", None, <<>>)

\* a mutant of close: CursorBase.close, which returns True and releases nothing
close_Base(c, t) == Result(c, t, "ok", Bool(TRUE), <<>>)

\* TrafCursor.close()
close(c, t) ==
    IF c.connection = "None" THEN Result(c, t, "ok", Bool(FALSE), <<>>)
    ELSE Result([c EXCEPT !.connection = "None"], t, "ok", Bool(TRUE), <<>>)

\* ---------------------------------------------------------------- actions
\* the rows a call handed to its caller
RowsOf(r) ==
    IF r.outcome # "ok" THEN <<>>
    ELSE IF r.ret.tag = "row" THEN <<r.ret>>
    ELSE IF r.ret.tag = "list" THEN r.ret.rows
    ELSE <<>>

Called(op, r) ==
    [op |-> op, outcome |-> r.outcome, ret |-> r.ret, calls |-> r.calls]

\* every way one execute() call, with any arguments, can end in this state
ExecuteOutcomes(c, t, alive) ==
    {r \in {execute(c, t, alive, operation, params, ch) :
                operation \in Operations, params \in ParamValues, ch \in ExecChoices} :
        r.valid}

Execute ==
    \E r \in ExecuteOutcomes(cursor, transport, conn_alive) :
        LET done == r.outcome = "ok" /\ r.calls # <<>>
        IN  /\ cursor' = r.c
            /\ transport' = r.t
            /\ returned' = IF done THEN <<>> ELSE returned
            /\ exec_ok' = IF done THEN exec_ok + 1 ELSE exec_ok
            /\ last' = Called("execute", r)
            /\ UNCHANGED <<conn_alive, creation_vars>>

FetchOne ==
    \E r \in FetchOneOutcomes(cursor, transport, conn_alive) :
        /\ cursor' = r.c
        /\ transport' = r.t
        /\ returned' = returned \o RowsOf(r)
        /\ last' = Called("fetchone", r)
        /\ UNCHANGED <<conn_alive, exec_ok, creation_vars>>

FetchMany ==
    \E arg \in SizeArgs :
        \E r \in fetchmany(cursor, transport, conn_alive, arg) :
            /\ cursor' = r.c
            /\ transport' = r.t
            /\ returned' = returned \o RowsOf(r)
            /\ last' = Called("fetchmany", r)
            /\ UNCHANGED <<conn_alive, exec_ok, creation_vars>>

Close ==
    LET r == close(cursor, transport)
    IN  /\ cursor' = r.c
        /\ last' = Called("close", r)
        /\ UNCHANGED <<conn_alive, transport, returned, exec_ok, creation_vars>>

\* cursor.arraysize = n
SetArraysize ==
    \E n \in 1..MaxArraySize :
        /\ cursor' = [cursor EXCEPT !.arraysize = n]
        /\ last' = [op |-> "arraysize", outcome |-> "ok", ret |-> None, calls |-> <<>>]
        /\ UNCHANGED <<conn_alive, transport, returned, exec_ok, creation_vars>>

\* the connection object is torn down; the cursor's weak proxy does not keep it alive
ConnectionGone ==
    /\ conn_alive
    /\ conn_alive' = FALSE
    /\ last' = [op |-> "connection_gone", outcome |-> "ok", ret |-> None, calls |-> <<>>]
    /\ UNCHANGED <<cursor, transport, returned, exec_ok, creation_vars>>

\* cursor.fetchall()
FetchAll ==
    LET r == fetchall(cursor, transport) IN
        /\ cursor' = r.c
        /\ transport' = r.t
        /\ returned' = returned \o RowsOf(r)
        /\ last' = Called("fetchall", r)
        /\ UNCHANGED <<conn_alive, exec_ok, creation_vars>>

\* TrafCursor(connection): one more cursor on the same, live connection; its
\* label is made from the next value of the connection's sequence
CreateCursor ==
    /\ conn_alive
    /\ Len(other_cursors) < MaxCursors
    /\ conn_seq' = GetSeq(conn_seq)
    /\ other_cursors' = Append(other_cursors, StmtLabel(GetSeq(conn_seq)))
    /\ last' = [op |-> "create", outcome |-> "ok", ret |-> None, calls |-> <<>>]
    /\ UNCHANGED <<cursor, conn_alive, transport, returned, exec_ok>>

\* the cursor with its arraysize left at the default
Next ==
    \/ Execute
    \/ FetchOne
    \/ FetchMany
    \/ Close
    \/ ConnectionGone

Spec == Init /\ [][Next]_vars

\* the cursor with its arraysize set by the caller, and its inherited fetchall
NextArraysize ==
    \/ Next
    \/ SetArraysize
    \/ FetchAll

SpecArraysize == Init /\ [][NextArraysize]_vars

\* a connection whose sequence has given out 0 or 8 values before the
\* cursor is created
InitCursors ==
    \E start \in {0, 8} :
        /\ cursor = [InitCursor EXCEPT !.stmt_name = StmtLabel(GetSeq(start))]
        /\ conn_alive = TRUE
        /\ transport = InitTransport
        /\ returned = <<>>
        /\ exec_ok = 0
        /\ last = [op |-> "init", outcome |-> "ok", ret |-> None, calls |-> <<>>]
        /\ conn_seq = GetSeq(start)
        /\ other_cursors = <<>>

\* several cursors on one connection
NextCursors ==
    \/ CreateCursor
    \/ Execute
    \/ FetchOne
    \/ Close

SpecCursors == InitCursors /\ [][NextCursors]_vars

\* the cursor holds the statement of a successful row-producing execute
Iterating ==
    /\ cursor.st # None
    /\ cursor.st.sql_stmt_type_ = TYPE_SELECT
    /\ cursor.st.id = transport.ex

\* the iterator has received the sentinel and stopped
IterDone == last.op = "fetchone" /\ last.outcome = "ok" /\ last.ret = None

\* __iter__, line 139: iter(self.fetchone, None) calls fetchone() again until
\* it returns None; the transport answers every fetch
IterNext ==
    /\ Iterating
    /\ ~IterDone
    /\ \E r \in FetchOneOutcomes(cursor, transport, conn_alive) :
        /\ r.outcome = "ok"
        /\ cursor' = r.c
        /\ transport' = r.t
        /\ returned' = returned \o RowsOf(r)
        /\ last' = Called("fetchone", r)
        /\ UNCHANGED <<conn_alive, exec_ok, creation_vars>>

\* a caller that executes and iterates over the cursor
NextIterate ==
    \/ Execute
    \/ IterNext

\* the iterator keeps calling fetchone() as long as it has not stopped
SpecIterate == Init /\ [][NextIterate]_vars /\ WF_vars(IterNext)

\* ----------------------------------------------------------------- claims
\* the cursor holds a statement classified as row-producing
RowProducing == cursor.st # None /\ cursor.st.sql_stmt_type_ = TYPE_SELECT

\* the last call was a successful execute that reached the transport
ExecutedOk == last.op = "execute" /\ last.outcome = "ok" /\ last.calls # <<>>

\* C1: a successful execute() resets end-of-data and discards the buffered
\* rows: right after it end_data is false, and every row handed to the caller
\* since it is a row the transport delivered for the statement of that
\* execute, never one delivered for an earlier execution.
C1_ExecuteDiscardsBuffer ==
    /\ ExecutedOk => ~cursor.end_data
    /\ \A i \in 1..Len(returned) : returned[i].ex = transport.ex

\* the transport has answered every fetch call for the current statement with
\* a non-empty batch flagged not end-of-data, or with one empty batch flagged
\* end-of-data
InPattern == ~transport.fetch_failed /\ transport.inline_eod = 0

\* the rows the transport has delivered for the current statement, in order
Delivered == [i \in 1..transport.sent |-> Row(transport.ex, i)]

\* C2: after one successful execute of a row-producing statement answered by
\* k non-empty batches and then an empty end-of-data batch, the rows handed
\* out are the delivered rows, each once and in order; at end of data all of
\* them have been handed out, fetchone() has returned None, and exactly k+1
\* fetch calls were answered, however many fetchone() calls follow.
C2_FetchOneYieldsBatchesInOrder ==
    (exec_ok = 1 /\ RowProducing /\ InPattern) =>
        /\ Len(returned) <= transport.sent
        /\ returned = SubSeq(Delivered, 1, Len(returned))
        /\ ~cursor.end_data => transport.replies = transport.batches
        /\ cursor.end_data =>
            /\ returned = Delivered
            /\ transport.replies = transport.batches + 1
            /\ (last.op = "fetchone" => last.outcome = "ok" /\ last.ret = None)

\* C2 witness: two batches were delivered, end of data was seen, and one more
\* fetchone() has returned None without calling the transport
C2_Witness ==
    /\ exec_ok = 1 /\ RowProducing /\ InPattern
    /\ cursor.end_data /\ transport.batches = 2 /\ Len(returned) = 2
    /\ last.op = "fetchone" /\ last.ret = None /\ last.calls = <<>>

\* C3: once end-of-data is set it stays set until the next execute(), and a
\* fetchone() on the exhausted statement returns None and leaves the
\* transport alone.
C3_EndOfDataIsSticky ==
    [][(cursor.end_data /\ last'.op # "execute") =>
          /\ cursor'.end_data
          /\ (RowProducing /\ last'.op = "fetchone") =>
                /\ last'.outcome = "ok" /\ last'.ret = None /\ last'.calls = <<>>
                /\ transport' = transport /\ cursor' = cursor]_vars

\* C3 witness: the cursor was closed after end of data, and a later fetchone()
\* still returned None without a transport call
C3_Witness ==
    /\ RowProducing /\ cursor.end_data /\ cursor.connection = "None"
    /\ last.op = "fetchone" /\ last.outcome = "ok" /\ last.ret = None
    /\ last.calls = <<>>

\* rows of the current result set not yet handed out: the unread rows of the
\* cached batch and the rows the server has not sent yet
Remaining ==
    IF cursor.end_data THEN 0
    ELSE (cursor.row_cached - cursor.next_row) + (transport.total - transport.sent)

\* C4: in every state after one row-producing execute, fetchmany(size) for
\* any size >= 0 returns min(size, rows remaining) rows, and fails only when
\* the transport fails.
C4_FetchManyLength ==
    \A arg \in SizeArgs :
        arg.given =>
            \A r \in fetchmany(cursor, transport, conn_alive, arg) :
                (exec_ok = 1 /\ RowProducing /\ transport.inline_eod = 0
                    /\ r.t.inline_eod = 0) =>
                    /\ r.outcome \in {"ok", "OperationalError"}
                    /\ r.outcome = "ok" =>
                        Len(r.ret.rows) = Min(arg.size, Remaining)

\* the errors a transport call raises
TransportErrors == {"InterfaceError", "OperationalError"}

\* C5: an execute() whose transport call fails made exactly one transport
\* call and leaves every field of the cursor as it was before the call.
C5_FailedExecuteLeavesCursor ==
    [][(last'.op = "execute" /\ last'.outcome \in TransportErrors) =>
          /\ Len(last'.calls) = 1
          /\ cursor' = cursor]_vars

\* C6: a fetchone() whose transport fetch fails made exactly one transport
\* call, handed out no row and leaves the buffer, the read position, the
\* cached count and the end-of-data flag as they were.
C6_FailedFetchLeavesCursor ==
    [][(last'.op = "fetchone" /\ last'.outcome \in TransportErrors) =>
          /\ Len(last'.calls) = 1 /\ last'.calls[1].api = "fetch"
          /\ last'.ret = None
          /\ cursor' = cursor
          /\ returned' = returned]_vars

\* C6 witness: a fetch failed in the middle of a result set, after a row of
\* it had been handed out and with rows still on the server
C6_Witness ==
    /\ last.op = "fetchone" /\ last.outcome = "OperationalError"
    /\ RowProducing /\ Len(returned) >= 1 /\ transport.sent < transport.total

\* C7: while the cursor's statement is classified as not row-producing,
\* fetchone() and fetchmany() fail with InternalError, return nothing, make no
\* transport call and change nothing.
C7_NonSelectFetchFails ==
    [][(cursor.st # None /\ cursor.st.sql_stmt_type_ = TYPE_OTHER
            /\ last'.op \in {"fetchone", "fetchmany"}) =>
          /\ last'.outcome = "InternalError"
          /\ last'.ret = None
          /\ last'.calls = <<>>
          /\ cursor' = cursor /\ transport' = transport /\ returned' = returned]_vars

\* C7 witness: fetchmany() failed on a non-row-producing statement while
\* unread rows of an earlier result set were still cached
C7_Witness ==
    /\ cursor.st # None /\ cursor.st.sql_stmt_type_ = TYPE_OTHER
    /\ last.op = "fetchmany" /\ last.outcome = "InternalError"
    /\ cursor.next_row < cursor.row_cached /\ ~cursor.end_data

\* C8 as stated: every execute() on a cursor with no connection fails with
\* ProgrammingError, without a transport call and without changing the cursor.
C8_NoConnectionAlwaysFails ==
    [][(last'.op = "execute" /\ cursor.connection = "None") =>
          /\ last'.outcome = "ProgrammingError"
          /\ last'.calls = <<>>
          /\ cursor' = cursor]_vars

\* C8 amended: on a cursor with no connection, execute() of a non-empty
\* operation fails with ProgrammingError and execute() of an empty operation
\* returns None; either way no transport call is made and nothing changes.
C8_NoConnectionNoTransport ==
    cursor.connection = "None" =>
        \A operation \in Operations, params \in ParamValues, ch \in ExecChoices :
            LET r == execute(cursor, transport, conn_alive, operation, params, ch)
            IN  /\ r.valid
                /\ r.outcome = IF OperationTruthy(operation)
                               THEN "ProgrammingError" ELSE "ok"
                /\ r.ret = None
                /\ r.calls = <<>>
                /\ r.c = cursor /\ r.t = transport

\* C8 witness: execute() failed with ProgrammingError on a closed cursor that
\* still holds the statement of an earlier execute
C8_Witness ==
    /\ cursor.connection = "None" /\ cursor.st # None
    /\ last.op = "execute" /\ last.outcome = "ProgrammingError"

\* C9: an execute() that reaches the transport makes exactly one call; with
\* params None it is the direct entry point, given the bytes only, on a
\* Statement with the Direct tag; with any other params, an empty sequence
\* included, it is the prepared entry point, given the bytes and the params,
\* on a PreparedStatement with the Prepared tag.
C9_ModeFollowsParams ==
    /\ \A operation \in Operations, params \in ParamValues, ch \in ExecChoices :
        LET r == execute(cursor, transport, conn_alive, operation, params, ch)
        IN  (r.valid /\ r.calls # <<>>) =>
                /\ Len(r.calls) = 1
                /\ r.calls[1].sql = EncodeOperation(operation)
                /\ r.calls[1].st = r.c.st.id
                /\ IF params = None
                   THEN /\ r.calls[1].api = "execute"
                        /\ "params" \notin DOMAIN r.calls[1]
                        /\ r.c.st.kind = "Statement"
                        /\ r.c.execute_type = SRVR_API_SQLEXECDIRECT
                   ELSE /\ r.calls[1].api = "execute_all"
                        /\ r.calls[1].params = params
                        /\ r.c.st.kind = "PreparedStatement"
                        /\ r.c.execute_type = SRVR_API_SQLEXECUTE2
    /\ (last.op = "execute" /\ last.calls # <<>>) =>
        /\ Len(last.calls) = 1
        /\ last.calls[1].kind = cursor.st.kind
        /\ last.calls[1].execute_type = cursor.execute_type
        /\ (cursor.st.kind = "Statement") = (cursor.execute_type = SRVR_API_SQLEXECDIRECT)
        /\ (cursor.st.kind = "Statement") = (last.calls[1].api = "execute")

\* C9 witness: an execute() with an empty parameter sequence went out through
\* the prepared entry point
C9_Witness ==
    /\ last.op = "execute" /\ last.calls # <<>>
    /\ last.calls[1].api = "execute_all" /\ last.calls[1].params = List(<<>>)
    /\ cursor.st.kind = "PreparedStatement"

\* C10: close() never fails; on a bound cursor it drops the connection
\* reference and returns True, on a cursor with no connection it returns
\* False and changes nothing; and a cursor with no connection stays so, so
\* every close() after the first returns False, whether or not the
\* connection itself still exists.
C10_CloseIdempotent ==
    [][/\ last'.op = "close" =>
            /\ last'.outcome = "ok" /\ last'.calls = <<>>
            /\ IF cursor.connection = "None"
               THEN last'.ret = Bool(FALSE) /\ cursor' = cursor
               ELSE /\ last'.ret = Bool(TRUE)
                    /\ cursor' = [cursor EXCEPT !.connection = "None"]
       /\ cursor.connection = "None" => cursor'.connection = "None"]_vars

\* C10 witness: a second close() returned False after the connection was gone
C10_Witness ==
    /\ ~conn_alive /\ cursor.connection = "None"
    /\ last.op = "close" /\ last.ret = Bool(FALSE)

\* the labels of all cursors on the connection, the modelled cursor first
AllLabels == <<cursor.stmt_name>> \o other_cursors

\* C11: the labels of two distinct cursors on one connection are never
\* equal; a creation takes the next sequence value, forms SQL_CUR_<value>
\* from it and changes nothing else of the connection; and no call changes a
\* label once it is made.
C11_LabelsUnique ==
    /\ [](\A i, j \in 1..Len(AllLabels) : AllLabels[i] = AllLabels[j] => i = j)
    /\ [][/\ cursor'.stmt_name = cursor.stmt_name
          /\ SubSeq(other_cursors', 1, Len(other_cursors)) = other_cursors
          /\ IF last'.op = "create"
             THEN /\ conn_seq' = conn_seq + 1
                  /\ other_cursors' = Append(other_cursors,
                        Str(<<83, 81, 76, 95, 67, 85, 82, 95>> \o Digits(conn_seq')))
                  /\ conn_alive' = conn_alive /\ transport' = transport
             ELSE conn_seq' = conn_seq /\ other_cursors' = other_cursors]_vars

\* C11 witness: three cursors exist, with labels of one and of two digits, and
\* the first of them has executed, fetched and been closed since
C11_Witness ==
    /\ Len(other_cursors) = 2 /\ conn_seq = 11
    /\ cursor.stmt_name = StmtLabel(9) /\ other_cursors[2] = StmtLabel(11)
    /\ cursor.st # None /\ cursor.connection = "None" /\ Len(returned) >= 1

\* C12: in every state after one row-producing execute, fetchmany() called
\* with no size argument returns min(arraysize, rows remaining) rows, for
\* whatever arraysize >= 1 the cursor has been given.
C12_DefaultSizeIsArraysize ==
    \A r \in fetchmany(cursor, transport, conn_alive, [given |-> FALSE]) :
        (exec_ok = 1 /\ RowProducing /\ cursor.arraysize >= 1
            /\ transport.inline_eod = 0 /\ r.t.inline_eod = 0
            /\ r.outcome = "ok") =>
            Len(r.ret.rows) = Min(cursor.arraysize, Remaining)

\* C13: fetchall() after one successful row-producing execute returns the
\* list of all rows not yet handed out, in order, and leaves the cursor at
\* end of data.
C13_FetchAllReturnsTheRest ==
    [][(last'.op = "fetchall" /\ exec_ok = 1 /\ RowProducing
            /\ ~cursor.end_data /\ InPattern) =>
        /\ last'.outcome = "ok"
        /\ last'.ret # None
        /\ last'.ret.rows =
             [i \in 1..(transport.total - Len(returned)) |->
                 Row(transport.ex, Len(returned) + i)]
        /\ cursor'.end_data]_vars

\* C14: close() leaves the cursor without a statement, so a fetchone or
\* fetchmany made on a closed cursor hands out no row and makes no transport
\* call; and the statement an execute sends to the transport is a new one,
\* never one an earlier execute used.
C14_CloseReleasesStatement ==
    [][/\ last'.op = "close" => cursor'.st = None
       /\ (cursor.connection = "None" /\ last'.op \in {"fetchone", "fetchmany"}) =>
            /\ returned' = returned
            /\ last'.calls = <<>>
       /\ (last'.op = "execute" /\ last'.calls # <<>>) =>
            /\ last'.calls[1].st > transport.stmts
            /\ cursor'.st.id = last'.calls[1].st]_vars

\* len(buffer): the number of rows in the result buffer, 0 while it is unset
BufferLen(c) == IF c.result_set = None THEN 0 ELSE Len(c.result_set.rows)

\* C15: in every reachable state the read position is at most the cached
\* count and the cached count is at most the number of rows in the buffer.
C15_BufferInvariant ==
    /\ cursor.next_row <= cursor.row_cached
    /\ cursor.row_cached <= BufferLen(cursor)

\* every row the transport has delivered for the current result set has been
\* handed to the caller
AllDeliveredReturned ==
    \A i \in 1..transport.sent :
        \E j \in 1..Len(returned) : returned[j] = Row(transport.ex, i)

\* C16: in every state, a fetchone() that reaches the transport was called
\* with end-of-data not set and the read position at or past the cached
\* count, makes exactly one call, a fetch, and, when the statement has been
\* fetched from before, every row of its earlier batches has been handed out
\* (as long as no fetchmany has raised and dropped the rows it had collected).
C16_FetchOnlyWhenExhausted ==
    \A ch \in FetchChoices :
        LET r == fetchone(cursor, transport, conn_alive, ch) IN
            (r.valid /\ r.calls # <<>>) =>
                /\ ~cursor.end_data
                /\ cursor.next_row >= cursor.row_cached
                /\ Len(r.calls) = 1
                /\ r.calls[1].api = "fetch"
                /\ (cursor.st.id = transport.ex /\ transport.replies >= 1
                        /\ ~transport.fetch_failed) =>
                        AllDeliveredReturned

\* C16 witness: a fetchone has just made the second fetch for one statement,
\* after serving the first batch of two rows from the buffer
C16_Witness ==
    /\ last.op = "fetchone" /\ Len(last.calls) = 1
    /\ cursor.st.id = transport.ex
    /\ transport.batches = 1 /\ transport.replies = 2
    /\ Len(returned) = 2

\* the cursor's statement is the one whose result set the transport holds,
\* and its end of data has been reported
StatementAtEnd ==
    cursor.st # None /\ cursor.st.id = transport.ex /\ cursor.end_data

\* C17: a fetchone() whose fetch is answered with endOfData=true returns
\* None and sets end-of-data; from then on every fetchone() on that statement
\* returns None without a transport call; and no row handed to the caller
\* is one that an endOfData=true reply carried.
C17_EndOfDataReplyYieldsNoRow ==
    /\ \A ch \in FetchChoices :
        LET r == fetchone(cursor, transport, conn_alive, ch) IN
            /\ (r.valid /\ r.calls # <<>> /\ ~ch.raise /\ ch.eod) =>
                    /\ r.outcome = "ok" /\ r.ret = None
                    /\ r.c.end_data
            /\ StatementAtEnd => r = Result(cursor, transport, "ok", None, <<>>)
    /\ \A j \in 1..Len(returned) :
            returned[j].ex = transport.ex =>
                returned[j].n <= transport.sent - transport.inline_eod

\* C17 witness: the statement's last row came with the endOfData=true reply;
\* fetchone returned None for it and the caller holds only the first row
C17_Witness ==
    /\ StatementAtEnd /\ transport.inline_eod = 1 /\ transport.sent = 2
    /\ last.op = "fetchone" /\ last.ret = None /\ last.calls = <<>>
    /\ returned = <<Row(transport.ex, 1)>>

\* C18: on a cursor that has never executed, fetchone() and fetchmany(), with
\* any size or none, raise InternalError, return no row and make no
\* transport call.
C18_FetchBeforeExecuteFails ==
    (transport.stmts = 0 /\ cursor.st = None) =>
        /\ \A ch \in FetchChoices :
            LET r == fetchone(cursor, transport, conn_alive, ch) IN
                r.valid =>
                    r.outcome = "InternalError" /\ r.ret = None /\ r.calls = <<>>
        /\ \A arg \in SizeArgs :
            \A r \in fetchmany(cursor, transport, conn_alive, arg) :
                r.outcome = "InternalError" /\ r.ret = None /\ r.calls = <<>>

\* C19: in every state, connected or not, execute() with an empty operation
\* text and any params returns None without raising, makes no transport
\* call and changes nothing of the cursor or the transport, so that every
\* fetchone() after it ends as it would have ended without it.
C19_EmptyOperationIsNoOp ==
    \A params \in ParamValues :
        \A ch \in ExecChoices :
            LET r == execute(cursor, transport, conn_alive, Str(<<>>), params, ch) IN
                /\ r = Result(cursor, transport, "ok", None, <<>>)
                /\ \A f \in FetchChoices :
                        fetchone(r.c, r.t, conn_alive, f)
                            = fetchone(cursor, transport, conn_alive, f)

\* C19 witness: execute('') has just returned on a closed cursor that still
\* holds a statement and an unread buffered row
C19_Witness ==
    /\ last.op = "execute" /\ last.outcome = "ok" /\ last.calls = <<>>
    /\ cursor.connection = "None"
    /\ RowProducing /\ cursor.next_row < cursor.row_cached
    /\ cursor.executed # None

\* iteration over a row-producing statement does not go on for ever: unless
\* the cursor is given another statement, the iterator receives None
IterationEnds == []<>(~Iterating \/ IterDone)

\* a fetchmany(size) call makes at most size transport calls and returns at
\* most size rows (an omitted size being 1)
FetchManyStepsBounded ==
    Iterating =>
        \A arg \in SizeArgs :
            \A r \in fetchmany(cursor, transport, conn_alive, arg) :
                /\ Len(r.calls) <= SizeOf(arg)
                /\ r.outcome = "ok" => Len(r.ret.rows) <= SizeOf(arg)

\* C20: with a transport that answers every fetch and delivers non-empty
\* batches until it reports end of data, repeated fetchone() calls after a
\* successful row-producing execute eventually return None; and a
\* fetchmany(size) call ends after at most size fetchone steps.
C20_IterationTerminates == IterationEnds /\ []FetchManyStepsBounded

====
